---- MODULE Spec2Model ----
(***************************************************************************)
(* Model of Modules/api_handler.py: BaseWebsocketAPIHandler, the websocket *)
(* request/response correlation engine of pipsqueak.                       *)
(*                                                                         *)
(* The handler runs on one asyncio event loop: code between two awaits is  *)
(* atomic, and every await on the network (websockets.connect, recv, send, *)
(* close, asyncio.sleep) is a point where any other task may run.  Each    *)
(* action below is one such atomic stretch of a coroutine.                 *)
(***************************************************************************)
EXTENDS Integers, Sequences, FiniteSets, TLC

\* ------------------------------------------------------------------ bounds
MaxTransports == 2   \* connections websockets.connect() opens in one run
MaxRequests   == 2   \* request() calls in one run (one uuid4 each)
MaxCallers    == 2   \* coroutines calling connect() / disconnect()
MaxInbox      == 2   \* frames a socket holds before recv() takes them

Transports == 1..MaxTransports
Requests   == 1..MaxRequests      \* the UUIDs uuid4() mints, one per request()
Callers    == 1..MaxCallers
StrayId    == MaxRequests + 1     \* a well-formed UUID no request() ever minted
None       == 0                   \* Python's None, for handles and task references

\* ------------------------------------------------------------------ frames
\* A frame is the text the server sends.  kind says what json.loads and the
\* look-up data["meta"]["request_id"] make of it; for kind "resp" the text of
\* meta.request_id is (uuid, form): the same UUID has several spellings.
Forms == {"canon", "upper"}
JunkKinds == {"undecodable", "notmapping", "noid", "baduuid"}
Frame(k, u, f) == [kind |-> k, uuid |-> u, form |-> f]
NoFrame == Frame("none", StrayId, "canon")
JunkFrames == {Frame(k, StrayId, "canon") : k \in JunkKinds}
RespFrames(ids) == {Frame("resp", u, f) : u \in ids, f \in Forms}
StrayFrame == Frame("resp", StrayId, "canon")

\* str(uuid): the canonical spelling request() puts in meta.request_id
UUIDStr(u) == [uuid |-> u, form |-> "canon"]
\* UUID(text): every spelling of a UUID parses to that UUID
UUIDParse(text) == text.uuid

\* handshake frames: undecodable text, decodable data that is no mapping with
\* a "meta" mapping, a mapping without meta.API-Version, or a version string
api_version == "v2.1"
Handshakes == {"undecodable", "notmapping", "noversion", "v2.1", "v1.0"}

\* ------------------------------------------------------------------ envelopes
\* The dict a caller passes to request(): keys "action" and "data", with or
\* without a "meta" mapping, which may already hold a stale request_id.
PlainEnvelope == [action |-> <<"rescues", "search">>, data |-> [name |-> "payload"]]
MetaEnvelope  == [action |-> <<"rescues", "search">>, data |-> [name |-> "payload"],
                  meta |-> [key |-> "stuff"]]
StaleEnvelope == [action |-> <<"rescues", "search">>, data |-> [name |-> "payload"],
                  meta |-> [key |-> "stuff", request_id |-> UUIDStr(StrayId)]]
Envelopes == {PlainEnvelope, MetaEnvelope, StaleEnvelope}

\* m[k] = v on a dict
SetKey(m, k, v) == [x \in (DOMAIN m) \cup {k} |-> IF x = k THEN v ELSE m[x]]

\* a request() that replaces the caller's meta block
AttachId_Replace(d, request_id) ==
    SetKey(d, "meta", [request_id |-> UUIDStr(request_id)])

\* lines 144-147: data["meta"]["request_id"] = str(request_id), or a new
\* meta mapping holding only the identifier
AttachId(d, request_id) ==
    IF "meta" \in DOMAIN d
    THEN [d EXCEPT !.meta = SetKey(@, "request_id", UUIDStr(request_id))]
    ELSE SetKey(d, "meta", [request_id |-> UUIDStr(request_id)])

\* json.dumps(dict(data)): the text whose decoding is the dict
JsonDumps(d) == [json |-> d]
JsonLoads(text) == text.json
NoWire == [json |-> [nothing |-> TRUE]]

VARIABLES
    connection,         \* self._connection: None or a websocket
    listener_task,      \* self._listener_task: None or a task
    waiting_requests,   \* self._waiting_requests: set of UUIDs
    request_responses,  \* self._request_responses: UUID -> decoded frame
    transport,          \* state of each websocket: "unopened", "open", "closed"
    listener,           \* the _message_handler tasks: status and the socket awaited
    pcL, trL,           \* connect()/disconnect() callers: position, socket in hand
    raised,             \* how the last connect()/disconnect() step ended
    pc, result, sentOn, \* request() callers: position, outcome, socket written to
    answered,           \* identifiers the server has echoed in a frame
    data,               \* the dict each request() caller passes in (request() writes to it)
    wire,               \* the text each request() handed to send()
    inbox,              \* frames received on each websocket, not yet read by recv()
    hist,               \* order in which answers arrived and identifiers were resolved
    retr                \* the last direct call of _retrieve_response: identifier, outcome

vars == <<connection, listener_task, waiting_requests, request_responses,
          transport, listener, pcL, trL, raised, pc, result, sentOn, answered,
          data, wire, inbox, hist, retr>>

\* the variables only some operations touch
aux == <<data, wire, inbox, hist, retr>>

handlerState == <<connection, listener_task, waiting_requests, request_responses>>

Outcome(s, v) == [status |-> s, value |-> v]

\* connected = self._connection is not None and self._connection.open
Connected ==
    /\ connection # None
    /\ transport[connection] = "open"

InitState ==
    /\ connection = None
    /\ listener_task = None
    /\ waiting_requests = {}
    /\ request_responses = << >>
    /\ transport = [t \in Transports |-> "unopened"]
    /\ listener = [t \in Transports |-> [st |-> "none", conn |-> None]]
    /\ pcL = [c \in Callers |-> "idle"]
    /\ trL = [c \in Callers |-> None]
    /\ raised = "none"
    /\ pc = [i \in Requests |-> "idle"]
    /\ result = [i \in Requests |-> Outcome("none", NoFrame)]
    /\ sentOn = [i \in Requests |-> None]
    /\ answered = {}
    /\ wire = [i \in Requests |-> NoWire]
    /\ inbox = [t \in Transports |-> << >>]
    /\ hist = [arrived |-> << >>, resolved |-> << >>]
    /\ retr = [id |-> StrayId, status |-> "none"]

Init ==
    /\ InitState
    /\ data = [i \in Requests |-> PlainEnvelope]

\* ------------------------------------------------------------------ connect()
\* What connect() makes of the handshake frame (lines 73-80): json.loads
\* fails -> APIError; the look-up ["meta"]["API-Version"] raises KeyError
\* (logged, connect goes on) or, on data that is no mapping, TypeError (not
\* caught); a version other than api_version -> APIError.
HandshakeOutcome(h) ==
    CASE h = "undecodable" -> "APIError:parse"
      [] h = "notmapping"  -> "TypeError"
      [] h = "noversion"   -> "ok:connect"
      [] h = api_version   -> "ok:connect"
      [] OTHER             -> "APIError:version"

Unopened == {t \in Transports : transport[t] = "unopened"}
Opening  == {c \in Callers : pcL[c] = "opening"}

\* connect() without its connected check
ConnectCall_NoCheck(c) ==
    /\ pcL[c] = "idle"
    /\ Cardinality(Opening) < Cardinality(Unopened)
    /\ pcL' = [pcL EXCEPT ![c] = "opening"]
    /\ raised' = "none"
    /\ UNCHANGED <<handlerState, transport, listener, trL,
                   pc, result, sentOn, answered>>
    /\ UNCHANGED aux

\* connect(), up to the await of websockets.connect (lines 63-70)
ConnectCall(c) ==
    /\ pcL[c] = "idle"
    /\ IF Connected
       THEN /\ raised' = "APIError:connected"
            /\ UNCHANGED pcL
       ELSE /\ Cardinality(Opening) < Cardinality(Unopened)
            /\ pcL' = [pcL EXCEPT ![c] = "opening"]
            /\ raised' = "none"
    /\ UNCHANGED <<handlerState, transport, listener, trL,
                   pc, result, sentOn, answered>>
    /\ UNCHANGED aux

\* websockets.connect returns an open socket; it is stored in
\* self._connection and connect() awaits the first frame on it (lines 70-74)
ConnectOpened(c) ==
    /\ pcL[c] = "opening"
    /\ Unopened # {}
    /\ LET t == CHOOSE u \in Unopened : \A v \in Unopened : u <= v
       IN /\ transport' = [transport EXCEPT ![t] = "open"]
          /\ connection' = t
          /\ trL' = [trL EXCEPT ![c] = t]
    /\ pcL' = [pcL EXCEPT ![c] = "handshake"]
    /\ UNCHANGED <<listener_task, waiting_requests, request_responses,
                   listener, raised, pc, result, sentOn, answered>>
    /\ UNCHANGED aux

\* the handshake frame h arrives: version check, then the listener task is
\* created and stored in self._listener_task (lines 74-82)
ConnectHandshake(c, h) ==
    /\ pcL[c] = "handshake"
    /\ transport[trL[c]] = "open"
    /\ pcL' = [pcL EXCEPT ![c] = "idle"]
    /\ trL' = [trL EXCEPT ![c] = None]
    /\ raised' = HandshakeOutcome(h)
    /\ IF HandshakeOutcome(h) = "ok:connect"
       THEN /\ listener' = [listener EXCEPT ![trL[c]] = [st |-> "created", conn |-> None]]
            /\ listener_task' = trL[c]
       ELSE UNCHANGED <<listener, listener_task>>
    /\ UNCHANGED <<connection, waiting_requests, request_responses, transport,
                   pc, result, sentOn, answered>>
    /\ UNCHANGED aux

\* the socket closes while connect() awaits the handshake: recv() raises
ConnectHandshakeClosed(c) ==
    /\ pcL[c] = "handshake"
    /\ transport[trL[c]] = "closed"
    /\ pcL' = [pcL EXCEPT ![c] = "idle"]
    /\ trL' = [trL EXCEPT ![c] = None]
    /\ raised' = "ConnectionClosed"
    /\ UNCHANGED <<handlerState, transport, listener,
                   pc, result, sentOn, answered>>
    /\ UNCHANGED aux

\* disconnect() testing only self._connection is None, not .open
DisconnectCall_HandleOnly(c) ==
    /\ pcL[c] = "idle"
    /\ IF connection = None
       THEN /\ raised' = "APIError:notconnected"
            /\ UNCHANGED <<listener, listener_task, pcL, trL>>
       ELSE IF listener_task = None
       THEN /\ raised' = "AttributeError"
            /\ UNCHANGED <<listener, listener_task, pcL, trL>>
       ELSE /\ listener' = [listener EXCEPT ![listener_task] =
                              IF @.st \in {"created", "recv"}
                              THEN [st |-> "cancelled", conn |-> None] ELSE @]
            /\ listener_task' = None
            /\ trL' = [trL EXCEPT ![c] = connection]
            /\ pcL' = [pcL EXCEPT ![c] = "closing"]
            /\ raised' = "none"
    /\ UNCHANGED <<connection, waiting_requests, request_responses, transport,
                   pc, result, sentOn, answered>>
    /\ UNCHANGED aux

\* ------------------------------------------------------------------ disconnect()
\* disconnect(), up to the await of close() (lines 91-96).  Task.cancel()
\* makes the listener raise CancelledError the next time the loop runs it:
\* from here on it reads no frame.  cancel() of a finished task does nothing.
DisconnectCall(c) ==
    /\ pcL[c] = "idle"
    /\ IF ~Connected
       THEN /\ raised' = "APIError:notconnected"
            /\ UNCHANGED <<listener, listener_task, pcL, trL>>
       ELSE IF listener_task = None
       THEN \* None.cancel()
            /\ raised' = "AttributeError"
            /\ UNCHANGED <<listener, listener_task, pcL, trL>>
       ELSE /\ listener' = [listener EXCEPT ![listener_task] =
                              IF @.st \in {"created", "recv"}
                              THEN [st |-> "cancelled", conn |-> None] ELSE @]
            /\ listener_task' = None
            /\ trL' = [trL EXCEPT ![c] = connection]
            /\ pcL' = [pcL EXCEPT ![c] = "closing"]
            /\ raised' = "none"
    /\ UNCHANGED <<connection, waiting_requests, request_responses, transport,
                   pc, result, sentOn, answered>>
    /\ UNCHANGED aux

\* close() starts the closing handshake: the socket stops being open
DisconnectClosing(c) ==
    /\ pcL[c] = "closing"
    /\ transport' = [transport EXCEPT ![trL[c]] = "closed"]
    /\ pcL' = [pcL EXCEPT ![c] = "closed"]
    /\ trL' = [trL EXCEPT ![c] = None]
    /\ UNCHANGED <<handlerState, listener, raised,
                   pc, result, sentOn, answered>>
    /\ UNCHANGED aux

\* a disconnect() that drops the pending identifiers when it returns
DisconnectReturn_ClearPending(c) ==
    /\ pcL[c] = "closed"
    /\ connection' = None
    /\ waiting_requests' = {}
    /\ pcL' = [pcL EXCEPT ![c] = "idle"]
    /\ raised' = "ok:disconnect"
    /\ UNCHANGED <<listener_task, request_responses, transport,
                   listener, trL, pc, result, sentOn, answered>>
    /\ UNCHANGED aux

\* close() returns and disconnect() clears self._connection (line 97)
DisconnectReturn(c) ==
    /\ pcL[c] = "closed"
    /\ connection' = None
    /\ pcL' = [pcL EXCEPT ![c] = "idle"]
    /\ raised' = "ok:disconnect"
    /\ UNCHANGED <<listener_task, waiting_requests, request_responses, transport,
                   listener, trL, pc, result, sentOn, answered>>
    /\ UNCHANGED aux

\* ------------------------------------------------------------------ _message_handler()
Alive(l) == listener[l].st \in {"created", "recv"}

\* self._request_responses[request_id] = data
Store(responses, rid, frame) ==
    [u \in (DOMAIN responses) \cup {rid} |-> IF u = rid THEN frame ELSE responses[u]]

\* a loop body that resolves the oldest pending identifier, whatever the
\* identifier the frame carries
Demux_Oldest(f, waiting, responses) ==
    IF f.kind = "resp" /\ waiting # {}
    THEN LET request_id == CHOOSE u \in waiting : \A v \in waiting : u <= v
         IN <<waiting \ {request_id}, Store(responses, request_id, f), TRUE>>
    ELSE <<waiting, responses, f.kind # "notmapping">>

\* a loop body that hands a frame without request_id to the oldest waiter
Demux_NoIdToOldest(f, waiting, responses) ==
    IF f.kind = "noid" /\ waiting # {}
    THEN LET request_id == CHOOSE u \in waiting : \A v \in waiting : u <= v
         IN <<waiting \ {request_id}, Store(responses, request_id, f), TRUE>>
    ELSE IF f.kind \in {"undecodable", "noid", "baduuid"} THEN <<waiting, responses, TRUE>>
    ELSE IF f.kind = "notmapping" THEN <<waiting, responses, FALSE>>
    ELSE IF UUIDParse([uuid |-> f.uuid, form |-> f.form]) \notin waiting
    THEN <<waiting, responses, TRUE>>
    ELSE <<waiting \ {f.uuid}, Store(responses, f.uuid, f), TRUE>>

\* a loop body that takes the identifier out of the pending set without
\* storing the frame
Demux_RemoveOnly(f, waiting, responses) ==
    IF f.kind \in {"undecodable", "noid", "baduuid"} THEN <<waiting, responses, TRUE>>
    ELSE IF f.kind = "notmapping" THEN <<waiting, responses, FALSE>>
    ELSE <<waiting \ {UUIDParse([uuid |-> f.uuid, form |-> f.form])}, responses, TRUE>>

\* What one pass of the loop body does with frame f (lines 106-127):
\* <<pending set, response store, does the loop go on>>
Demux(f, waiting, responses) ==
    CASE f.kind = "undecodable" -> <<waiting, responses, TRUE>>   \* JSONDecodeError
      [] f.kind = "notmapping"  -> <<waiting, responses, FALSE>>  \* TypeError, not caught
      [] f.kind = "noid"        -> <<waiting, responses, TRUE>>   \* KeyError
      [] f.kind = "baduuid"     -> <<waiting, responses, TRUE>>   \* ValueError
      [] OTHER ->
           LET request_id == UUIDParse([uuid |-> f.uuid, form |-> f.form])
           IN IF request_id \notin waiting
              THEN <<waiting, responses, TRUE>>
              ELSE <<waiting \ {request_id}, Store(responses, request_id, f), TRUE>>

\* the task's first step: it evaluates self._connection.recv() and suspends
ListenerStart(l) ==
    /\ listener[l].st = "created"
    /\ listener' = [listener EXCEPT ![l] =
                      IF connection = None
                      THEN [st |-> "crashed", conn |-> None]     \* None.recv()
                      ELSE [st |-> "recv", conn |-> connection]]
    /\ UNCHANGED <<handlerState, transport, pcL, trL, raised,
                   pc, result, sentOn, answered>>
    /\ UNCHANGED aux

Sent == {i \in Requests : sentOn[i] # None}

\* the frames a server may send: junk, an unsolicited identifier, or the
\* identifier of an envelope it was sent, in any spelling
ServerFrames == JunkFrames \cup {StrayFrame} \cup RespFrames(Sent)

\* recv() returns frame f to the task: the loop body runs and the loop comes
\* back to self._connection.recv() (lines 104-127)
Deliver(l, f) ==
    /\ listener[l].st = "recv"
    /\ transport[listener[l].conn] = "open"
    /\ f \in ServerFrames
    /\ LET d == Demux(f, waiting_requests, request_responses)
       IN /\ waiting_requests' = d[1]
          /\ request_responses' = d[2]
          /\ listener' = [listener EXCEPT ![l] =
                            IF ~d[3] \/ connection = None
                            THEN [st |-> "crashed", conn |-> None]
                            ELSE [st |-> "recv", conn |-> connection]]
    /\ answered' = IF f.kind = "resp" /\ f.uuid # StrayId
                   THEN answered \cup {f.uuid} ELSE answered
    /\ UNCHANGED <<connection, listener_task, transport, pcL, trL, raised,
                   pc, result, sentOn>>

\* frame f arrives on the socket the task awaits and is read at once
ListenerRecv(l, f) ==
    /\ Deliver(l, f)
    /\ UNCHANGED aux

\* recv() on a closed socket raises ConnectionClosed: the task ends
ListenerClosed(l) ==
    /\ listener[l].st = "recv"
    /\ transport[listener[l].conn] = "closed"
    /\ listener' = [listener EXCEPT ![l] = [st |-> "closed", conn |-> None]]
    /\ UNCHANGED <<handlerState, transport, pcL, trL, raised,
                   pc, result, sentOn, answered>>
    /\ UNCHANGED aux

\* request() registering its identifier before _send_raw checks connected
RequestCall_RegisterFirst(i, yields) ==
    /\ pc[i] = "idle"
    /\ waiting_requests' = waiting_requests \cup {i}
    /\ data' = [data EXCEPT ![i] = AttachId(@, i)]
    /\ IF ~Connected
       THEN /\ pc' = [pc EXCEPT ![i] = "failed"]
            /\ result' = [result EXCEPT ![i] = Outcome("APIError:notconnected", NoFrame)]
            /\ UNCHANGED <<sentOn, wire>>
       ELSE /\ sentOn' = [sentOn EXCEPT ![i] = connection]
            /\ wire' = [wire EXCEPT ![i] = JsonDumps(AttachId(data[i], i))]
            /\ UNCHANGED result
            /\ pc' = [pc EXCEPT ![i] = IF yields THEN "sending" ELSE "waiting"]
    /\ UNCHANGED <<connection, listener_task, request_responses, transport,
                   listener, pcL, trL, raised, answered, inbox, hist, retr>>

\* ------------------------------------------------------------------ request()
\* request() up to the first suspension (lines 143-150, 131-137).  _send_raw
\* checks connected and hands the envelope to send(); send() may complete
\* without suspending (yields = FALSE: the identifier is registered in the
\* same step) or suspend in the socket's flow control (yields = TRUE).
\* d is the dict passed in: the identifier is attached to it (lines 143-147)
\* before _send_raw tests connected, and json.dumps(dict(data)) goes to send().
RequestWith(i, yields, d) ==
    /\ pc[i] = "idle"
    /\ data' = [data EXCEPT ![i] = AttachId(d, i)]
    /\ IF ~Connected
       THEN /\ pc' = [pc EXCEPT ![i] = "failed"]
            /\ result' = [result EXCEPT ![i] = Outcome("APIError:notconnected", NoFrame)]
            /\ UNCHANGED <<sentOn, waiting_requests, wire>>
       ELSE /\ sentOn' = [sentOn EXCEPT ![i] = connection]
            /\ wire' = [wire EXCEPT ![i] = JsonDumps(AttachId(d, i))]
            /\ UNCHANGED result
            /\ IF yields
               THEN /\ pc' = [pc EXCEPT ![i] = "sending"]
                    /\ UNCHANGED waiting_requests
               ELSE /\ pc' = [pc EXCEPT ![i] = "waiting"]
                    /\ waiting_requests' = waiting_requests \cup {i}
    /\ UNCHANGED <<connection, listener_task, request_responses, transport,
                   listener, pcL, trL, raised, answered, inbox, hist, retr>>

\* request(data) called with the caller's dict
RequestCall(i, yields) == RequestWith(i, yields, data[i])

\* send() returns: self._waiting_requests.add(request_id), then
\* _retrieve_response starts polling (lines 150-151, 155-159)
RequestSent(i) ==
    /\ pc[i] = "sending"
    /\ waiting_requests' = waiting_requests \cup {i}
    /\ pc' = [pc EXCEPT ![i] = "waiting"]
    /\ UNCHANGED <<connection, listener_task, request_responses, transport,
                   listener, pcL, trL, raised, result, sentOn, answered>>
    /\ UNCHANGED aux

\* _retrieve_response wakes from sleep(0.1) and finds its identifier gone
\* from the pending set: it returns self._request_responses[request_id]
RequestReturn(i) ==
    /\ pc[i] = "waiting"
    /\ i \notin waiting_requests
    /\ IF i \in DOMAIN request_responses
       THEN /\ pc' = [pc EXCEPT ![i] = "returned"]
            /\ result' = [result EXCEPT ![i] = Outcome("returned", request_responses[i])]
       ELSE /\ pc' = [pc EXCEPT ![i] = "failed"]
            /\ result' = [result EXCEPT ![i] = Outcome("KeyError", NoFrame)]
    /\ UNCHANGED <<handlerState, transport, listener, pcL, trL, raised,
                   sentOn, answered>>
    /\ UNCHANGED aux

\* ------------------------------------------------------------------ the network
\* the server or the network closes a socket (a terminal read error)
ServerClose(t) ==
    /\ transport[t] = "open"
    /\ transport' = [transport EXCEPT ![t] = "closed"]
    /\ UNCHANGED <<handlerState, listener, pcL, trL, raised,
                   pc, result, sentOn, answered>>
    /\ UNCHANGED aux

AllFrames == JunkFrames \cup {StrayFrame} \cup RespFrames(Requests)

Next ==
    \/ \E c \in Callers : ConnectCall(c)
    \/ \E c \in Callers : ConnectOpened(c)
    \/ \E c \in Callers, h \in Handshakes : ConnectHandshake(c, h)
    \/ \E c \in Callers : ConnectHandshakeClosed(c)
    \/ \E c \in Callers : DisconnectCall(c)
    \/ \E c \in Callers : DisconnectClosing(c)
    \/ \E c \in Callers : DisconnectReturn(c)
    \/ \E l \in Transports : ListenerStart(l)
    \/ \E l \in Transports, f \in AllFrames : ListenerRecv(l, f)
    \/ \E l \in Transports : ListenerClosed(l)
    \/ \E i \in Requests, y \in BOOLEAN : RequestCall(i, y)
    \/ \E i \in Requests : RequestSent(i)
    \/ \E i \in Requests : RequestReturn(i)
    \/ \E t \in Transports : ServerClose(t)

Spec == Init /\ [][Next]_vars

\* ------------------------------------------------------------------ liveness
\* A connection that stays open (no disconnect(), no read error, a handshake
\* connect() accepts) and a server that answers every envelope once, echoing
\* its identifier in some spelling.
ServerAnswer(l, i, form) ==
    /\ i \in Sent \ answered
    /\ ListenerRecv(l, Frame("resp", i, form))

LiveNext ==
    \/ ConnectCall(1)
    \/ ConnectOpened(1)
    \/ \E h \in {api_version, "noversion"} : ConnectHandshake(1, h)
    \/ \E l \in Transports : ListenerStart(l)
    \/ \E l \in Transports, i \in Requests, form \in Forms : ServerAnswer(l, i, form)
    \/ \E i \in Requests, y \in BOOLEAN : RequestCall(i, y)
    \/ \E i \in Requests : RequestSent(i)
    \/ \E i \in Requests : RequestReturn(i)

\* the event loop runs every task that is ready, and the server answers
LiveSpec ==
    /\ Init /\ [][LiveNext]_vars
    /\ WF_vars(ConnectOpened(1))
    /\ WF_vars(\E h \in {api_version, "noversion"} : ConnectHandshake(1, h))
    /\ \A l \in Transports : WF_vars(ListenerStart(l))
    /\ \A i \in Requests :
         /\ WF_vars(\E l \in Transports, form \in Forms : ServerAnswer(l, i, form))
         /\ WF_vars(RequestSent(i))
         /\ WF_vars(RequestReturn(i))

\* ------------------------------------------------------------------ abandoned calls
\* The task awaiting request() is cancelled (task.cancel(), or the timeout of
\* asyncio.wait_for): CancelledError is raised at the await the call is
\* suspended in, send() (line 149) or sleep(0.1) (line 159).  Neither
\* request() nor _retrieve_response has a try/finally: nothing is undone.
RequestCancel(i) ==
    /\ pc[i] \in {"sending", "waiting"}
    /\ pc' = [pc EXCEPT ![i] = "cancelled"]
    /\ result' = [result EXCEPT ![i] = Outcome("CancelledError", NoFrame)]
    /\ UNCHANGED <<handlerState, transport, listener, pcL, trL, raised,
                   sentOn, answered>>
    /\ UNCHANGED aux

Identifiers == Requests \cup {StrayId}

\* _retrieve_response(u) called on its own, up to its first suspension
\* (lines 155-159)
RetrieveCall(u) ==
    /\ retr.status # "waiting"
    /\ retr' = [id |-> u,
                status |-> IF u \notin waiting_requests
                           THEN "APIError:nevermade" ELSE "waiting"]
    /\ UNCHANGED <<handlerState, transport, listener, pcL, trL, raised,
                   pc, result, sentOn, answered, data, wire, inbox, hist>>

\* the direct call wakes from sleep(0.1) with its identifier gone from the
\* pending set and returns the stored frame (lines 158-161)
RetrieveReturn ==
    /\ retr.status = "waiting"
    /\ retr.id \notin waiting_requests
    /\ retr' = [retr EXCEPT !.status = IF retr.id \in DOMAIN request_responses
                                       THEN "returned" ELSE "KeyError"]
    /\ UNCHANGED <<handlerState, transport, listener, pcL, trL, raised,
                   pc, result, sentOn, answered, data, wire, inbox, hist>>

\* One connect()/disconnect() caller, a server that answers each envelope
\* at most once, requests that may be cancelled, and direct calls of
\* _retrieve_response.
AbandonNext ==
    \/ ConnectCall(1)
    \/ ConnectOpened(1)
    \/ \E h \in {api_version, "noversion"} : ConnectHandshake(1, h)
    \/ DisconnectCall(1)
    \/ DisconnectClosing(1)
    \/ DisconnectReturn(1)
    \/ \E l \in Transports : ListenerStart(l)
    \/ \E l \in Transports, i \in Requests, form \in Forms : ServerAnswer(l, i, form)
    \/ \E i \in Requests, y \in BOOLEAN : RequestCall(i, y)
    \/ \E i \in Requests : RequestSent(i)
    \/ \E i \in Requests : RequestReturn(i)
    \/ \E i \in Requests : RequestCancel(i)
    \/ \E u \in Identifiers : RetrieveCall(u)
    \/ RetrieveReturn

AbandonSpec == Init /\ [][AbandonNext]_vars

\* ------------------------------------------------------------------ update_rescue()
\* a rescue as update_rescue sees it: its case_id, falsy (None) or set
Rescues == {[case_id |-> c] : c \in {None, 1}}

\* rescue.json(full): the rescue's data, all of it or the changed part
RescueJson(r, full) == [rescue |-> r.case_id, full |-> full]

\* the request update_rescue builds (line 189)
RescueRequest(r, full) ==
    [action |-> <<"rescues", "update">>, id |-> r.case_id, data |-> RescueJson(r, full)]

\* update_rescue that always asks the rescue for its full data
UpdateRescue_AlwaysFull(i, r, full, yields) ==
    IF r.case_id = None
    THEN /\ pc[i] = "idle"
         /\ pc' = [pc EXCEPT ![i] = "failed"]
         /\ result' = [result EXCEPT ![i] = Outcome("APIError:nocaseid", NoFrame)]
         /\ UNCHANGED <<handlerState, transport, listener, pcL, trL, raised,
                        sentOn, answered>>
         /\ UNCHANGED aux
    ELSE RequestWith(i, yields, RescueRequest(r, TRUE))

\* update_rescue(rescue, full), up to the first suspension of the request()
\* it awaits (lines 186-190)
UpdateRescue(i, r, full, yields) ==
    IF r.case_id = None
    THEN /\ pc[i] = "idle"
         /\ pc' = [pc EXCEPT ![i] = "failed"]
         /\ result' = [result EXCEPT ![i] = Outcome("APIError:nocaseid", NoFrame)]
         /\ UNCHANGED <<handlerState, transport, listener, pcL, trL, raised,
                        sentOn, answered>>
         /\ UNCHANGED aux
    ELSE RequestWith(i, yields, RescueRequest(r, full))

\* Callers pass any of the envelopes to request(), or call update_rescue,
\* on a connection that stays open.
EnvInit ==
    /\ InitState
    /\ data \in [Requests -> Envelopes]

EnvNext ==
    \/ ConnectCall(1)
    \/ ConnectOpened(1)
    \/ \E h \in {api_version, "noversion"} : ConnectHandshake(1, h)
    \/ \E l \in Transports : ListenerStart(l)
    \/ \E l \in Transports, i \in Requests, form \in Forms : ServerAnswer(l, i, form)
    \/ \E i \in Requests, y \in BOOLEAN : RequestCall(i, y)
    \/ \E i \in Requests, r \in Rescues, full, y \in BOOLEAN : UpdateRescue(i, r, full, y)
    \/ \E i \in Requests : RequestSent(i)
    \/ \E i \in Requests : RequestReturn(i)

EnvSpec == EnvInit /\ [][EnvNext]_vars

\* ------------------------------------------------------------------ frames in flight
\* The socket keeps the frames it has received until recv() is called; the
\* server answers each envelope once, in any order, and recv() hands the
\* frames over oldest first.
ServerSendQ(t, i, form) ==
    /\ transport[t] = "open"
    /\ i \in Sent /\ sentOn[i] = t
    /\ \A k \in 1..Len(hist.arrived) : hist.arrived[k] # i
    /\ Len(inbox[t]) < MaxInbox
    /\ inbox' = [inbox EXCEPT ![t] = Append(@, Frame("resp", i, form))]
    /\ hist' = [hist EXCEPT !.arrived = Append(@, i)]
    /\ UNCHANGED <<handlerState, transport, listener, pcL, trL, raised,
                   pc, result, sentOn, answered, data, wire, retr>>

\* the identifiers a step of the listener takes out of the pending set,
\* appended to the record of resolutions
Resolved(before, after, log) ==
    IF before \ after = {} THEN log
    ELSE Append(log, CHOOSE u \in before \ after : TRUE)

\* a listener that reads the newest frame the socket holds
ListenerRecvQ_Newest(l) ==
    /\ listener[l].st = "recv"
    /\ inbox[listener[l].conn] # << >>
    /\ LET q == inbox[listener[l].conn]
       IN /\ Deliver(l, q[Len(q)])
          /\ inbox' = [inbox EXCEPT ![listener[l].conn] = SubSeq(q, 1, Len(q) - 1)]
    /\ hist' = [hist EXCEPT !.resolved = Resolved(waiting_requests, waiting_requests', @)]
    /\ UNCHANGED <<data, wire, retr>>

\* one iteration of the loop: recv() returns the oldest frame the socket
\* holds and the loop body runs on it (lines 104-127)
ListenerRecvQ(l) ==
    /\ listener[l].st = "recv"
    /\ inbox[listener[l].conn] # << >>
    /\ LET q == inbox[listener[l].conn]
       IN /\ Deliver(l, Head(q))
          /\ inbox' = [inbox EXCEPT ![listener[l].conn] = Tail(q)]
    /\ hist' = [hist EXCEPT !.resolved = Resolved(waiting_requests, waiting_requests', @)]
    /\ UNCHANGED <<data, wire, retr>>

\* the callers issue their requests one after the other: request i is sent
\* after every request j < i
RequestInOrder(i, yields) ==
    /\ \A j \in Requests : j < i => pc[j] # "idle"
    /\ RequestCall(i, yields)

QueueNext ==
    \/ ConnectCall(1)
    \/ ConnectOpened(1)
    \/ \E h \in {api_version, "noversion"} : ConnectHandshake(1, h)
    \/ \E l \in Transports : ListenerStart(l)
    \/ \E t \in Transports, i \in Requests, form \in Forms : ServerSendQ(t, i, form)
    \/ \E l \in Transports : ListenerRecvQ(l)
    \/ \E i \in Requests, y \in BOOLEAN : RequestInOrder(i, y)
    \/ \E i \in Requests : RequestSent(i)
    \/ \E i \in Requests : RequestReturn(i)

QueueSpec == Init /\ [][QueueNext]_vars

\* ------------------------------------------------------------------ claims

\* C1: a request() call that returns returns the frame whose meta.request_id
\* is the identifier minted for that call, never another call's frame.
C1_NoCrossDelivery ==
    \A i \in Requests :
        result[i].status = "returned" =>
            /\ result[i].value.kind = "resp"
            /\ UUIDParse([uuid |-> result[i].value.uuid, form |-> result[i].value.form]) = i
            /\ i \in answered

\* request 2 has returned its frame while request 1 is still outstanding
C1_Witness ==
    /\ pc[2] = "returned"
    /\ pc[1] = "waiting"
    /\ 1 \in waiting_requests

\* C2: whenever an envelope carrying identifier X has been handed to the
\* transport, X is already pending or already resolved.
C2_RegisteredBeforeSend ==
    \A i \in Requests :
        sentOn[i] # None => i \in waiting_requests \/ i \in DOMAIN request_responses

\* C3: on a connection that stays open, with every envelope answered, every
\* request() call that has sent its envelope eventually returns.
C3_EveryRequestReturns ==
    \A i \in Requests : (pc[i] \in {"sending", "waiting"}) ~> (pc[i] = "returned")

\* C4: connect() on an open connection raises APIError and leaves the
\* transport handle, the listener task, the pending set and the response
\* store unchanged; no second transport is opened.
C4_ConnectWhileOpen ==
    [][\A c \in Callers :
         (Connected /\ ConnectCall(c)) =>
            /\ raised' = "APIError:connected"
            /\ pcL' = pcL
            /\ UNCHANGED <<handlerState, transport, listener>>]_vars

C4_Witness ==
    /\ raised = "APIError:connected"
    /\ Connected
    /\ listener_task # None

\* C5: a handshake declaring another API version makes connect() fail with
\* the version-mismatch error, and afterwards connected is false and no
\* listener has been started.
C5_MismatchLeavesNotOpen ==
    [][\A c \in Callers, h \in Handshakes :
         (ConnectHandshake(c, h) /\ HandshakeOutcome(h) = "APIError:version") =>
            /\ raised' = "APIError:version"
            /\ ~Connected'
            /\ UNCHANGED <<listener, listener_task>>]_vars

\* C6: connect() on a not-connected instance whose handshake frame is
\* decodable and carries the required version or no version field succeeds:
\* connected is true and the listener task has been started.
C6_ConnectSucceeds ==
    [][\A c \in Callers, h \in {api_version, "noversion", "notmapping"} :
         ConnectHandshake(c, h) =>
            /\ raised' = "ok:connect"
            /\ Connected'
            /\ listener_task' # None
            /\ listener'[listener_task'].st = "created"]_vars

\* C7: disconnect() called while connected is true completes, and when it
\* returns connected is false, the transport is closed and no listener task
\* is left running.
C7_DisconnectCompletes ==
    [][\A c \in Callers :
         /\ (Connected /\ DisconnectCall(c)) => pcL'[c] = "closing"
         /\ DisconnectReturn(c) =>
               /\ ~Connected'
               /\ \A l \in Transports : ~(listener'[l].st \in {"created", "recv"})]_vars

\* C8: disconnect() on a connection that is not open raises the
\* not-connected APIError and changes no handler state.
C8_DisconnectNotOpen ==
    [][\A c \in Callers :
         (~Connected /\ DisconnectCall(c)) =>
            /\ raised' = "APIError:notconnected"
            /\ pcL' = pcL
            /\ UNCHANGED <<handlerState, transport, listener>>]_vars

\* a second disconnect() after a successful one has raised
C8_Witness ==
    /\ raised = "APIError:notconnected"
    /\ connection = None
    /\ \E t \in Transports : transport[t] = "closed"

\* C9: request() on a connection that is not open fails at once with the
\* not-connected APIError: nothing is sent, nothing is registered and the
\* response store is unchanged.
C9_RequestNotOpen ==
    [][\A i \in Requests, y \in BOOLEAN :
         (~Connected /\ RequestCall(i, y)) =>
            /\ result'[i].status = "APIError:notconnected"
            /\ pc'[i] = "failed"
            /\ sentOn' = sentOn
            /\ UNCHANGED <<waiting_requests, request_responses>>]_vars

C9_Witness ==
    \E i \in Requests :
        /\ pc[i] = "failed"
        /\ result[i].status = "APIError:notconnected"
        /\ sentOn[i] = None

\* C10: a frame whose request_id is a well-formed identifier that is not
\* pending is discarded: pending set and response store are unchanged, no
\* waiter returns, the listener keeps running, and a frame matching a pending
\* identifier still resolves it.
C10_UnsolicitedDiscarded ==
    [][\A l \in Transports, f \in RespFrames(Requests) \cup {StrayFrame} :
         ListenerRecv(l, f) =>
            IF UUIDParse([uuid |-> f.uuid, form |-> f.form]) \notin waiting_requests
            THEN /\ UNCHANGED <<waiting_requests, request_responses, pc, result>>
                 /\ listener'[l].st = "recv"
            ELSE /\ f.uuid \notin waiting_requests'
                 /\ f.uuid \in DOMAIN request_responses'
                 /\ request_responses'[f.uuid] = f]_vars

\* C11: no received frame, whatever its shape, ends the listener loop: after
\* the task has read a frame it is back at recv().
C11_NoFrameEndsListener ==
    [][\A l \in Transports, f \in AllFrames :
         ListenerRecv(l, f) => listener'[l].st = "recv"]_vars

\* C12: once request() has returned for an identifier, the response store
\* holds no entry for it.
C12_StoreEntryConsumed ==
    \A i \in Requests : pc[i] = "returned" => i \notin DOMAIN request_responses

\* C14: at most one transport is open and at most one listener task is
\* running, also while connect() calls overlap.
C14_OneTransportOneListener ==
    /\ Cardinality({t \in Transports : transport[t] = "open"}) <= 1
    /\ Cardinality({l \in Transports : Alive(l)}) <= 1

\* C16: neither disconnect() nor the end of the listener on a read error
\* changes the pending set or the response store, and no request() returns
\* or raises in that step.
C16_TeardownLeavesPending ==
    [][((\E c \in Callers : DisconnectCall(c) \/ DisconnectClosing(c) \/ DisconnectReturn(c))
          \/ (\E l \in Transports : ListenerClosed(l)))
         => UNCHANGED <<waiting_requests, request_responses, pc, result>>]_vars

\* disconnect() has returned and a request is still suspended on its identifier
C16_Witness ==
    /\ raised = "ok:disconnect"
    /\ connection = None
    /\ \E i \in Requests : pc[i] = "waiting" /\ i \in waiting_requests

\* C17: a frame that is undecodable, has no meta.request_id or has an
\* ill-formed request_id changes neither the pending set nor the response
\* store, leaves the connection open, and no request() returns or raises.
C17_JunkFrameNoEffect ==
    [][\A l \in Transports, f \in JunkFrames :
         ListenerRecv(l, f) =>
            UNCHANGED <<waiting_requests, request_responses, pc, result,
                        connection, transport>>]_vars

\* the task of the live connection has ended on a frame (the only way it
\* can have crashed while its own socket is still the handle) with a request
\* pending and the connection still open
C17_Witness ==
    /\ Connected
    /\ listener[connection].st = "crashed"
    /\ \E i \in Requests : pc[i] = "waiting" /\ i \in waiting_requests

\* C13: a Pending Request Set entry is removed on every exit of its
\* request() call: no identifier is pending unless its request() is waiting
\* for the answer, and when disconnect() completes the set is empty.
C13_PendingRemovedOnExit ==
    [][/\ \A i \in waiting_requests' : pc'[i] = "waiting"
       /\ DisconnectReturn(1) => waiting_requests' = {}]_vars

\* C19: _retrieve_response(u) fails with the caller-misuse error exactly
\* when no request() ever registered u (u is neither pending nor resolved),
\* and a failing call changes nothing of the handler.
C19_NeverMadeIffNeverRegistered ==
    [][\A u \in Identifiers :
         RetrieveCall(u) =>
            /\ retr'.status = "APIError:nevermade"
                 <=> u \notin waiting_requests \cup DOMAIN request_responses
            /\ retr'.status = "APIError:nevermade"
                 => UNCHANGED <<handlerState, transport, listener, pc, result>>]_vars


\* C15: the envelope request() sends carries the identifier the call
\* registers in meta.request_id; a caller's meta block keeps its other keys,
\* a missing one is created with request_id alone; every other field is sent
\* as passed in; the text sent is never changed afterwards.
C15_EnvelopeCarriesId ==
    [][\A i \in Requests :
         /\ wire[i] # NoWire => wire'[i] = wire[i]
         /\ \A y \in BOOLEAN :
              RequestCall(i, y) /\ Connected =>
                 LET d == data[i]
                     sent == JsonLoads(wire'[i])
                 IN /\ sent.meta.request_id = UUIDStr(i)
                    /\ i \in waiting_requests' \/ pc'[i] = "sending"
                    /\ DOMAIN sent = DOMAIN d \cup {"meta"}
                    /\ \A k \in DOMAIN d \ {"meta"} : sent[k] = d[k]
                    /\ IF "meta" \in DOMAIN d
                       THEN /\ DOMAIN sent.meta = DOMAIN d.meta \cup {"request_id"}
                            /\ \A k \in DOMAIN d.meta \ {"request_id"} :
                                 sent.meta[k] = d.meta[k]
                       ELSE DOMAIN sent.meta = {"request_id"}]_vars

\* a request with a meta block and one without have both been sent and answered
C15_Witness ==
    \E i, j \in Requests :
       /\ pc[i] = "returned" /\ pc[j] = "returned"
       /\ wire[i] # NoWire /\ wire[j] # NoWire
       /\ JsonLoads(wire[i]).action = <<"rescues", "search">>
       /\ JsonLoads(wire[i]).meta = [key |-> "stuff", request_id |-> UUIDStr(i)]
       /\ JsonLoads(wire[j]).action = <<"rescues", "search">>
       /\ JsonLoads(wire[j]).meta = [request_id |-> UUIDStr(j)]

\* C20: update_rescue on a rescue without case id fails with APIError and
\* nothing is sent or registered; with a case id it issues one request()
\* with action ["rescues", "update"], the rescue's id and the data the full
\* flag selects, and its result is that request()'s.
C20_UpdateRescue ==
    [][\A i \in Requests, r \in Rescues, full, y \in BOOLEAN :
         UpdateRescue(i, r, full, y) =>
            IF r.case_id = None
            THEN /\ result'[i].status = "APIError:nocaseid"
                 /\ UNCHANGED <<handlerState, transport, sentOn, wire>>
            ELSE /\ \A j \in Requests \ {i} :
                      pc'[j] = pc[j] /\ wire'[j] = wire[j] /\ sentOn'[j] = sentOn[j]
                 /\ waiting_requests' \subseteq waiting_requests \cup {i}
                 /\ IF Connected
                    THEN LET sent == JsonLoads(wire'[i])
                         IN /\ sent.action = <<"rescues", "update">>
                            /\ sent.id = r.case_id
                            /\ sent.data = RescueJson(r, full)
                            /\ sent.meta = [request_id |-> UUIDStr(i)]
                            /\ pc'[i] \in {"sending", "waiting"}
                    ELSE /\ result'[i].status = "APIError:notconnected"
                         /\ UNCHANGED <<waiting_requests, wire>>]_vars

\* one update_rescue was refused for its missing case id, another sent the
\* changed fields of its rescue and returned the server's answer
C20_Witness ==
    \E i, j \in Requests :
       /\ result[j].status = "APIError:nocaseid"
       /\ pc[i] = "returned"
       /\ wire[i] # NoWire
       /\ JsonLoads(wire[i]).action = <<"rescues", "update">>
       /\ JsonLoads(wire[i]).data.full = FALSE
       /\ result[i].value = request_responses[i]

\* C18: the listener handles frames one at a time in the order they
\* arrived: the identifiers resolved so far appear in the order their frames
\* arrived, whatever the order the requests were sent in.
C18_ResolvedInArrivalOrder ==
    hist.resolved =
       SelectSeq(hist.arrived,
                 LAMBDA u : \E k \in 1..Len(hist.resolved) : hist.resolved[k] = u)

\* request 1 was sent before request 2, both were pending together, and
\* request 2 was resolved first
C18_Witness ==
    /\ hist.arrived = <<2, 1>>
    /\ hist.resolved = <<2, 1>>
    /\ \A i \in {1, 2} : pc[i] = "returned" /\ result[i].value.uuid = i

\* C21: no identifier is at once pending and a key of the response store,
\* and a waiter that finds its identifier gone from the pending set finds an
\* entry for it in the store: the final look-up never fails.
C21_StoreThenRemoveAtomic ==
    /\ waiting_requests \cap DOMAIN request_responses = {}
    /\ \A i \in Requests :
         /\ pc[i] = "waiting" /\ i \notin waiting_requests
              => i \in DOMAIN request_responses
         /\ result[i].status # "KeyError"

\* a waiter whose identifier the listener has just resolved, not yet woken
C21_Witness ==
    \E i \in Requests :
       /\ pc[i] = "waiting"
       /\ i \notin waiting_requests
       /\ i \in DOMAIN request_responses
       /\ request_responses[i].uuid = i

\* C22: whenever connected is true a live listener task exists: request()
\* never passes its connected check and sends an envelope while no listener
\* is running.
C22_ConnectedHasListener ==
    [][\A i \in Requests, y \in BOOLEAN :
         (RequestCall(i, y) /\ Connected) => \E l \in Transports : Alive(l)]_vars

\* C23: a connect() that fails on an undecodable handshake frame leaves the
\* instance not connected, with no transport retained and no listener
\* started.
C23_FailedHandshakeLeavesClean ==
    [][\A c \in Callers :
         ConnectHandshake(c, "undecodable") =>
            /\ raised' = "APIError:parse"
            /\ ~Connected'
            /\ connection' = None
            /\ UNCHANGED <<listener, listener_task>>]_vars

\* C24: a request is resolved only by a frame received on the connection
\* its envelope was sent over: a frame read from another socket never takes
\* its identifier out of the pending set.
C24_ResolvedOnOwnConnection ==
    [][\A l \in Transports, f \in RespFrames(Requests) :
         (ListenerRecv(l, f) /\ f.uuid \in waiting_requests)
            => listener[l].conn = sentOn[f.uuid]]_vars

\* C25: a disconnect() suspended in close() does not disturb the calls
\* that run meanwhile: when it resumes it does not clear the handle of an
\* open connection a newer connect() installed, and it leaves no listener
\* running without a handle.
C25_DisconnectRaceSafe ==
    [][\A c \in Callers :
         DisconnectReturn(c) =>
            /\ ~Connected
            /\ \A l \in Transports : ~Alive(l)]_vars

====
